---- MODULE Spec2Model ----
(***************************************************************************)
(* Model of the GENIA tagger wrapper (genia.py, GeniaTagger.process) and   *)
(* of its caching consumer (usim.py, Sentence.pos_tags).                   *)
(*                                                                         *)
(* A string is a sequence of one-character strings.  The external tagger   *)
(* is a process at the other end of two pipes: it receives the bytes that  *)
(* process() writes, splits them into request lines at each newline, and   *)
(* answers each request with response lines and a blank line.  A pipe is   *)
(* first-in first-out with a single reader, so a line is chosen at the     *)
(* moment readline() takes it; readline() blocks while the tagger is alive *)
(* and has no request left to answer.                                      *)
(***************************************************************************)
EXTENDS Integers, Sequences, FiniteSets, TLC

(***************************************************************************)
(* Bounds of the model.                                                    *)
(***************************************************************************)
MaxTextLen == 3
MaxWordLen == 2
MaxTokens == 2
MaxCalls == 2
NumIds == 2

(***************************************************************************)
(* Characters.                                                             *)
(***************************************************************************)
NL == "\n"
TAB == "\t"
DQUOTE == "\""
\* the grave accent, which a TLA+ string cannot hold
BACKTICK == "backtick"
SQUOTE == "'"
DOT == "."
BACKSLASH == "\\"

\* str.rstrip() with no argument strips ASCII whitespace
Whitespace == {" ", TAB, NL, "\r", "\f"}

\* the alphanumeric characters among those the model uses (re.escape keeps them)
Alnum == {"a", "x"}

TextChars == {"a", DOT, DQUOTE, NL}
WordChars == {"a", DOT}

TAGS == <<"word", "base", "POStag", "chunktag", "NEtag">>

None == <<>>

(***************************************************************************)
(* Helpers on sequences.                                                   *)
(***************************************************************************)
Range(s) == {s[i] : i \in 1..Len(s)}

SeqsUpTo(S, n) == UNION {[1..k -> S] : k \in 0..n}

Min(a, b) == IF a <= b THEN a ELSE b

\* Python slice s[i:] with 0 <= i
SliceFrom(s, i) == SubSeq(s, i + 1, Len(s))

(***************************************************************************)
(* RE_NEWLINE.sub('', text)                                                *)
(***************************************************************************)
\* a variant that leaves the newlines in
StripNewlinesId(text) == text

StripNewlines(text) == SelectSeq(text, LAMBDA c : c # NL)

(***************************************************************************)
(* str.rstrip()                                                            *)
(***************************************************************************)
RECURSIVE RStrip(_)
RStrip(s) ==
  IF s = <<>> THEN s
  ELSE IF s[Len(s)] \in Whitespace THEN RStrip(SubSeq(s, 1, Len(s) - 1))
  ELSE s

(***************************************************************************)
(* str.split('\t'): the fields between tabs, at least one field            *)
(***************************************************************************)
RECURSIVE Split(_)
Split(s) ==
  LET tabs == {i \in 1..Len(s) : s[i] = TAB}
  IN IF tabs = {} THEN <<s>>
     ELSE LET i == CHOOSE k \in tabs : \A j \in tabs : k <= j
          IN <<SubSeq(s, 1, i - 1)>> \o Split(SubSeq(s, i + 1, Len(s)))

(***************************************************************************)
(* dict(zip(keys, values)): pairs up to the shorter of the two             *)
(***************************************************************************)
Zip(keys, values) ==
  LET n == Min(Len(keys), Len(values))
  IN [k \in {keys[i] : i \in 1..n} |->
        values[CHOOSE i \in 1..n : keys[i] = k]]

(***************************************************************************)
(* The clean-up of genia's mangled quote tokens                            *)
(***************************************************************************)
\* a variant that rewrites the backticks only
NormalizeKeep(word) ==
  IF word = <<BACKTICK, BACKTICK>> THEN <<DQUOTE>> ELSE word

Normalize(word) ==
  LET w1 == IF word = <<BACKTICK, BACKTICK>> THEN <<DQUOTE>> ELSE word
  IN IF w1 = <<SQUOTE, SQUOTE>> THEN <<DQUOTE>> ELSE w1

(***************************************************************************)
(* re.escape (Python 2): every non-alphanumeric character gets a backslash *)
(***************************************************************************)
\* a variant that escapes nothing
EscapeNone(word) == word

RECURSIVE Escape(_)
Escape(word) ==
  IF word = <<>> THEN <<>>
  ELSE (IF word[1] \in Alnum THEN <<word[1]>> ELSE <<BACKSLASH, word[1]>>)
       \o Escape(Tail(word))

(***************************************************************************)
(* The regular expression engine, for the patterns the model can build: a  *)
(* backslash makes the next character a literal, a bare dot matches any    *)
(* character but a newline, any other character is a literal.              *)
(***************************************************************************)
RECURSIVE Compile(_)
Compile(pattern) ==
  IF pattern = <<>> THEN <<>>
  ELSE IF pattern[1] = BACKSLASH /\ Len(pattern) >= 2
       THEN <<[kind |-> "lit", ch |-> pattern[2]]>> \o Compile(SubSeq(pattern, 3, Len(pattern)))
  ELSE IF pattern[1] = DOT
       THEN <<[kind |-> "any", ch |-> DOT]>> \o Compile(Tail(pattern))
  ELSE <<[kind |-> "lit", ch |-> pattern[1]]>> \o Compile(Tail(pattern))

\* the atoms match s at 0-based offset i
MatchAt(atoms, s, i) ==
  /\ i + Len(atoms) <= Len(s)
  /\ \A k \in 1..Len(atoms) :
        IF atoms[k].kind = "any" THEN s[i + k] # NL ELSE s[i + k] = atoms[k].ch

\* a variant that falls back on the empty span at 0 when nothing matches
SearchOrZero(pattern, s) ==
  LET atoms == Compile(pattern)
      hits == {i \in 0..Len(s) : MatchAt(atoms, s, i)}
  IN IF hits = {} THEN <<0, 0>>
     ELSE LET i == CHOOSE k \in hits : \A j \in hits : k <= j
          IN <<i, i + Len(atoms)>>

\* re.search(pattern, s).span(): None, or the span of the leftmost match
Search(pattern, s) ==
  LET atoms == Compile(pattern)
      hits == {i \in 0..Len(s) : MatchAt(atoms, s, i)}
  IN IF hits = {} THEN None
     ELSE LET i == CHOOSE k \in hits : \A j \in hits : k <= j
          IN <<i, i + Len(atoms)>>

(***************************************************************************)
(* Inputs.                                                                 *)
(***************************************************************************)
\* texts a caller can pass to process()
Texts == SeqsUpTo(TextChars, MaxTextLen)

\* surface words the tagger can put in the first field of a line
Words == SeqsUpTo(WordChars, MaxWordLen) \cup {<<BACKTICK, BACKTICK>>, <<SQUOTE, SQUOTE>>}

RECURSIVE JoinTab(_)
JoinTab(fields) ==
  IF Len(fields) = 1 THEN fields[1]
  ELSE fields[1] \o <<TAB>> \o JoinTab(Tail(fields))

\* a line of n fields: the word, then n-1 fields all equal to fill
MkLine(w, n, fill) == JoinTab(<<w>> \o [i \in 1..(n - 1) |-> fill])

\* response lines the tagger can emit (without the newline): with one field
\* too few, the right number and one too many, and with five fields of which
\* all but the word are empty
Lines ==
  {MkLine(w, n, <<"x">>) : w \in Words, n \in {Len(TAGS) - 1, Len(TAGS), Len(TAGS) + 1}}
  \cup {MkLine(w, Len(TAGS), <<>>) : w \in Words}

\* the corpus of the caching layer: sentence ids and their texts
Ids == 1..NumIds
\* the caller of a process call made by a client, not by a Sentence
Direct == 0
CacheTexts == {<<"a">>, <<DQUOTE, NL, "a">>}
CacheLines == {MkLine(w, Len(TAGS), <<"x">>) : w \in {<<"a">>, <<DOT>>, <<BACKTICK, BACKTICK>>}}

(***************************************************************************)
(* State.                                                                  *)
(***************************************************************************)
VARIABLES
  tagger,        \* usim.tagger: "None" or "session"
  tag_cache,     \* usim.tag_cache: sentence id -> token stream
  sentences,     \* sentence id -> str(sentence)
  pc,            \* "idle", "read" (at a readline), "loop" (at the while test)
  caller,        \* Direct, or the sentence id whose pos_tags called process
  text,          \* the argument of process
  proc_text,     \* process: proc_text
  token_stream,  \* process: token_stream
  range_start,   \* process: range_start
  line,          \* process: line
  outcome,       \* how the last access ended
  result,        \* the value the last access returned
  written,       \* the bytes of the last write to the tagger's stdin
  pending,       \* tagger: requests received and not yet answered
  dead,          \* tagger: the process has terminated
  rawline,       \* what the last readline returned (<<>> at end of stream)
  got,           \* history: what the readlines of the current call returned
  resplen,       \* history: lines of its current response the tagger has emitted
  answered,      \* history: responses the tagger has completed
  fivefield,     \* history: every response line so far had five fields
  nonblank,      \* history: every response line so far had a non-whitespace character
  poisoned,      \* history: a call on the session raised inside a response
  ncalls,        \* history: calls of process so far
  invocations    \* history: sentence id -> calls of process made for it

vars == <<tagger, tag_cache, sentences, pc, caller, text, proc_text, token_stream,
          range_start, line, outcome, result, written, pending, dead, rawline,
          got, resplen, answered, fivefield, nonblank, poisoned, ncalls, invocations>>

cachevars == <<tagger, tag_cache, sentences>>
localvars == <<text, proc_text, token_stream, range_start, line>>
taggervars == <<pending, dead, resplen, answered, fivefield, nonblank>>

InitCommon ==
  /\ tag_cache = <<>>
  /\ pc = "idle"
  /\ caller = Direct
  /\ text = <<>>
  /\ proc_text = <<>>
  /\ token_stream = <<>>
  /\ range_start = 0
  /\ line = <<>>
  /\ outcome = "none"
  /\ result = <<>>
  /\ written = <<>>
  /\ pending = 0
  /\ dead = FALSE
  /\ rawline = <<>>
  /\ got = <<>>
  /\ resplen = 0
  /\ answered = 0
  /\ fivefield = TRUE
  /\ nonblank = TRUE
  /\ poisoned = FALSE
  /\ ncalls = 0
  /\ invocations = [i \in Ids |-> 0]

\* a client that owns a GeniaTagger and calls process directly
Init ==
  /\ InitCommon
  /\ tagger = "session"
  /\ sentences = <<>>

\* the usim module after import and Collection.init
InitCache ==
  /\ InitCommon
  /\ tagger \in {"None", "session"}
  /\ sentences \in [Ids -> CacheTexts]

(***************************************************************************)
(* GeniaTagger.process, up to its first readline: strip the newlines,      *)
(* write the request.  Writing to a terminated process fails (EPIPE).      *)
(***************************************************************************)
CountNL(s) == Cardinality({i \in 1..Len(s) : s[i] = NL})

ProcessStart(who, t) ==
  /\ pc = "idle"
  /\ ncalls < MaxCalls
  /\ ncalls' = ncalls + 1
  /\ invocations' = IF who = Direct THEN invocations
                    ELSE [invocations EXCEPT ![who] = @ + 1]
  /\ caller' = who
  /\ result' = <<>>
  /\ IF dead
     THEN /\ pc' = "idle"
          /\ outcome' = "IOError"
          /\ written' = <<>>
          /\ pending' = pending
          /\ UNCHANGED localvars
     ELSE /\ pc' = "read"
          /\ outcome' = "running"
          /\ text' = t
          /\ proc_text' = StripNewlines(t)
          /\ written' = proc_text' \o <<NL>>
          /\ pending' = pending + CountNL(written')
          /\ token_stream' = <<>>
          /\ range_start' = 0
          /\ line' = <<>>
  /\ UNCHANGED <<cachevars, dead, rawline, got, resplen, answered, fivefield,
                 nonblank, poisoned>>

(***************************************************************************)
(* self.genia_instance.stdout.readline().rstrip()                          *)
(***************************************************************************)
ReadLine(LS) ==
  /\ pc = "read"
  /\ \/ /\ dead
        /\ rawline' = <<>>
        /\ UNCHANGED taggervars
     \/ /\ ~dead /\ pending > 0 /\ resplen < MaxTokens
        /\ \E l \in LS :
             /\ rawline' = l \o <<NL>>
             /\ fivefield' = (fivefield /\ Len(Split(l)) = Len(TAGS))
             /\ nonblank' = (nonblank /\ RStrip(l) # <<>>)
        /\ resplen' = resplen + 1
        /\ UNCHANGED <<pending, dead, answered>>
     \/ /\ ~dead /\ pending > 0
        /\ rawline' = <<NL>>
        /\ pending' = pending - 1
        /\ answered' = answered + 1
        /\ resplen' = 0
        /\ UNCHANGED <<dead, fivefield, nonblank>>
  /\ line' = RStrip(rawline')
  /\ got' = Append(got, rawline')
  /\ pc' = "loop"
  /\ UNCHANGED <<cachevars, caller, text, proc_text, token_stream, range_start,
                 outcome, result, written, poisoned, ncalls, invocations>>

(***************************************************************************)
(* process is left, by return or by an exception: its locals are gone      *)
(***************************************************************************)
ExitFrame ==
  /\ text' = <<>>
  /\ proc_text' = <<>>
  /\ token_stream' = <<>>
  /\ range_start' = 0
  /\ line' = <<>>
  /\ rawline' = <<>>
  /\ got' = <<>>

(***************************************************************************)
(* The body of the while loop, for a non-empty line                        *)
(***************************************************************************)
LoopBody ==
  /\ pc = "loop"
  /\ line # <<>>
  /\ LET token == Zip(TAGS, Split(line))
         word == Normalize(token["word"])
         m == Search(Escape(word), SliceFrom(proc_text, range_start))
     IN IF m = None
        THEN \* None.span() raises AttributeError, which leaves process
             /\ pc' = "idle"
             /\ outcome' = "AttributeError"
             /\ poisoned' = TRUE
             /\ ExitFrame
        ELSE /\ token_stream' = Append(token_stream,
                  ("start" :> (range_start + m[1])) @@ ("end" :> (range_start + m[2])) @@ token)
             /\ range_start' = range_start + m[2]
             /\ pc' = "read"
             /\ UNCHANGED <<text, proc_text, line, rawline, got, outcome, poisoned>>
  /\ UNCHANGED <<cachevars, caller, result, written, taggervars, ncalls, invocations>>

(***************************************************************************)
(* The while test fails on an empty line: return token_stream.  When the   *)
(* caller is Sentence.pos_tags, it stores the value in tag_cache.          *)
(***************************************************************************)
Store(cache, id, value) ==
  [k \in (DOMAIN cache) \cup {id} |-> IF k = id THEN value ELSE cache[k]]

Return ==
  /\ pc = "loop"
  /\ line = <<>>
  /\ pc' = "idle"
  /\ outcome' = "returned"
  /\ result' = token_stream
  /\ tag_cache' = IF caller = Direct THEN tag_cache
                  ELSE Store(tag_cache, caller, token_stream)
  /\ ExitFrame
  /\ UNCHANGED <<tagger, sentences, caller, written, taggervars, poisoned, ncalls,
                 invocations>>

(***************************************************************************)
(* The tagger process terminates (it crashes, or __del__ terminates it)    *)
(***************************************************************************)
TaggerDie ==
  /\ ~dead
  /\ dead' = TRUE
  /\ UNCHANGED <<cachevars, pc, caller, localvars, outcome, result, written, pending,
                 rawline, got, resplen, answered, fivefield, nonblank, poisoned,
                 ncalls, invocations>>

(***************************************************************************)
(* Sentence.pos_tags                                                       *)
(***************************************************************************)
\* a variant that never finds an entry
CacheHitNever(id) == FALSE

CacheHit(id) == id \in DOMAIN tag_cache

PosTagsUnavailable(id) ==
  /\ pc = "idle"
  /\ tagger = "None"
  /\ outcome' = "ValueError"
  /\ result' = <<>>
  /\ caller' = id
  /\ UNCHANGED <<cachevars, pc, localvars, written, rawline, got, taggervars,
                 poisoned, ncalls, invocations>>

PosTagsCached(id) ==
  /\ pc = "idle"
  /\ tagger # "None"
  /\ CacheHit(id)
  /\ outcome' = "cached"
  /\ result' = tag_cache[id]
  /\ caller' = id
  /\ UNCHANGED <<cachevars, pc, localvars, written, rawline, got, taggervars,
                 poisoned, ncalls, invocations>>

PosTagsProcess(id) ==
  /\ tagger # "None"
  /\ ~CacheHit(id)
  /\ ProcessStart(id, sentences[id])

Process == \E t \in Texts : ProcessStart(Direct, t)

PosTags == \E id \in Ids : PosTagsUnavailable(id) \/ PosTagsCached(id) \/ PosTagsProcess(id)

Next ==
  \/ Process
  \/ ReadLine(Lines)
  \/ LoopBody
  \/ Return
  \/ TaggerDie

Spec == Init /\ [][Next]_vars

NextCache ==
  \/ PosTags
  \/ ReadLine(CacheLines)
  \/ LoopBody
  \/ Return
  \/ TaggerDie

SpecCache == InitCache /\ [][NextCache]_vars

(***************************************************************************)
(* Vocabulary of the properties.                                           *)
(***************************************************************************)
Tok(i) == token_stream[i]

\* where the search for token i started: the end of the token before it
Cursor(i) == IF i = 1 THEN 0 ELSE token_stream[i - 1]["end"]

\* the surface form the search for token i looked for
Surface(i) == Normalize(Tok(i)["word"])

QuoteWords == {<<BACKTICK, BACKTICK>>, <<SQUOTE, SQUOTE>>}

\* w occurs literally in s at 0-based offset k
OccursAt(w, s, k) == k + Len(w) <= Len(s) /\ SubSeq(s, k + 1, k + Len(w)) = w

\* the line readline returned, without its newline, and its tab-separated fields
WireLine == IF rawline # <<>> /\ rawline[Len(rawline)] = NL
            THEN SubSeq(rawline, 1, Len(rawline) - 1) ELSE rawline
WireFields == Split(WireLine)

\* process is at the while test with a line to turn into a token
AtToken == pc = "loop" /\ line # <<>>

\* process is at the while test with the empty line that ends the loop
AtReturn == pc = "loop" /\ line = <<>>

InCall == pc \in {"read", "loop"}

TypeOK ==
  /\ pc \in {"idle", "read", "loop"}
  /\ tagger \in {"None", "session"}
  /\ range_start \in 0..Len(proc_text)
  /\ pending \in Nat /\ resplen \in 0..MaxTokens /\ ncalls \in 0..MaxCalls
  /\ outcome \in {"none", "running", "returned", "cached", "ValueError",
                   "IOError", "AttributeError"}

\* Every token starts at or after the end of the token before it.
SpansOrdered ==
  \A i \in 1..Len(token_stream) :
     /\ Tok(i)["start"] >= Cursor(i)
     /\ Tok(i)["end"] >= Tok(i)["start"]

(***************************************************************************)
(* C1: in every token sequence of process, each token starts at or after   *)
(* the end of the token before it, and a surface word emitted twice gets,  *)
(* the second time, a span distinct from and later than the first.         *)
(***************************************************************************)
C1_OrderedAndDistinct ==
  \A i, j \in 1..Len(token_stream) :
     i < j =>
       /\ Tok(j)["start"] >= Tok(i)["end"]
       /\ Tok(i)["word"] = Tok(j)["word"] =>
             /\ <<Tok(j)["start"], Tok(j)["end"]>> # <<Tok(i)["start"], Tok(i)["end"]>>
             /\ Tok(j)["start"] > Tok(i)["start"]

(***************************************************************************)
(* C2: every token of process has 0 <= start < end <= len(proc_text), for  *)
(* every line of the tagger, a line with an empty word field included.     *)
(***************************************************************************)
C2_SpanBounds ==
  \A i \in 1..Len(token_stream) :
     /\ 0 <= Tok(i)["start"]
     /\ Tok(i)["start"] < Tok(i)["end"]
     /\ Tok(i)["end"] <= Len(proc_text)

(***************************************************************************)
(* C3: the span of a token is that of the first literal occurrence of its  *)
(* normalized surface form at or after the cursor, in the text with its    *)
(* newlines removed: start >= cursor, end = start + len(token), the text   *)
(* between start and end is the token character for character, and no      *)
(* occurrence lies between the cursor and start.                           *)
(***************************************************************************)
C3_FirstLiteralOccurrence ==
  /\ InCall => /\ NL \notin Range(proc_text)
               /\ Len(proc_text) + CountNL(text) = Len(text)
  /\ \A i \in 1..Len(token_stream) :
        /\ Tok(i)["start"] >= Cursor(i)
        /\ Tok(i)["end"] = Tok(i)["start"] + Len(Surface(i))
        /\ OccursAt(Surface(i), proc_text, Tok(i)["start"])
        /\ \A k \in Cursor(i)..(Tok(i)["start"] - 1) : ~OccursAt(Surface(i), proc_text, k)

\* a token with a character special in regular expressions, found after
\* the cursor, in a text that has lost a newline
C3_Witness ==
  /\ text # proc_text
  /\ \E i \in 1..Len(token_stream) :
        /\ DOT \in Range(Surface(i))
        /\ Tok(i)["start"] > Cursor(i)

(***************************************************************************)
(* C4: a surface form of two backticks or of two single quotes is looked   *)
(* for as one double quote: the token gets the span of the first double    *)
(* quote at or after the cursor, one character long, and process fails     *)
(* when there is none.                                                     *)
(***************************************************************************)
C4_QuoteStep ==
  (AtToken /\ Split(line)[1] \in QuoteWords /\ pc' # "loop") =>
     LET ahead == {k \in range_start..(Len(proc_text) - 1) : proc_text[k + 1] = DQUOTE}
     IN IF ahead = {}
        THEN pc' = "idle" /\ outcome' = "AttributeError"
        ELSE LET q == CHOOSE k \in ahead : \A j \in ahead : k <= j
                 t == token_stream'[Len(token_stream')]
             IN /\ pc' = "read"
                /\ Len(token_stream') = Len(token_stream) + 1
                /\ t["word"] = Split(line)[1]
                /\ t["start"] = q /\ t["end"] = q + 1
                /\ range_start' = q + 1

\* C4: every step of process on a quote word is such a step.
C4_QuoteSpans == [][C4_QuoteStep]_vars

\* an opening and a closing quote token, each on its own double quote
C4_Witness ==
  /\ AtReturn
  /\ Len(token_stream) = 2
  /\ Tok(1)["word"] = <<BACKTICK, BACKTICK>> /\ Tok(1)["start"] = 0 /\ Tok(1)["end"] = 1
  /\ Tok(2)["word"] = <<SQUOTE, SQUOTE>> /\ Tok(2)["start"] = 1 /\ Tok(2)["end"] = 2

(***************************************************************************)
(* C5: when the output stream ends before a blank line was read, process   *)
(* raises; it does not return the tokens read so far.                      *)
(***************************************************************************)
C5_EndOfStreamRaises ==
  [][(pc = "loop" /\ rawline = <<>> /\ pc' = "idle") => outcome' # "returned"]_vars

(***************************************************************************)
(* C6: a non-blank response line that has not exactly five tab-separated   *)
(* fields makes process raise; no token is built from it.                  *)
(***************************************************************************)
C6_FieldCountChecked ==
  [][(AtToken /\ Len(WireFields) # Len(TAGS)) =>
        /\ Len(token_stream') <= Len(token_stream)
        /\ pc' \in {"loop", "idle"}
        /\ pc' = "idle" => outcome' # "returned"]_vars

(***************************************************************************)
(* C7: when the normalized surface form of a line occurs nowhere in the    *)
(* text from the cursor on, process fails with an error: it returns no     *)
(* token list, stores nothing, and gives the line no token and no offset.  *)
(***************************************************************************)
C7_UnmatchedStep ==
  LET w == Normalize(Split(line)[1])
  IN (/\ AtToken
      /\ \A k \in range_start..Len(proc_text) : ~OccursAt(w, proc_text, k)
      /\ pc' # "loop") =>
        /\ pc' = "idle"
        /\ outcome' = "AttributeError"
        /\ result' = <<>>
        /\ token_stream' = <<>>
        /\ tag_cache' = tag_cache

\* C7: every step of process on an unmatched word is such a step.
C7_UnmatchedRaises == [][C7_UnmatchedStep]_vars

C7_Witness == pc = "idle" /\ outcome = "AttributeError" /\ poisoned /\ ncalls = 1

(***************************************************************************)
(* C8: over the pos_tags accesses of a run, process is invoked at most     *)
(* once for each sentence id, also after an access that ended in an error, *)
(* and a cache entry once written is never overwritten or removed.         *)
(***************************************************************************)
EntriesKept ==
  \A id \in DOMAIN tag_cache : id \in DOMAIN tag_cache' /\ tag_cache'[id] = tag_cache[id]

\* C8, as stated.
C8_AtMostOncePerId ==
  [][(\A id \in Ids : invocations'[id] <= 1) /\ EntriesKept]_vars

\* C8, amended: process is not invoked for a sentence id that has a cache
\* entry, and a cache entry once written is never overwritten or removed.
C8_NoCallOnceCached ==
  [][(\A id \in DOMAIN tag_cache : invocations'[id] = invocations[id]) /\ EntriesKept]_vars

\* a sentence whose first access failed, whose second access was tagged
\* and stored, and whose third access was served from the cache
C8_Witness ==
  \E id \in DOMAIN tag_cache :
     invocations[id] = 2 /\ outcome = "cached" /\ caller = id /\ result = tag_cache[id]

(***************************************************************************)
(* C9: after a call of process failed inside a response, no later call of  *)
(* process is issued on the same session.                                  *)
(***************************************************************************)
C9_FailedSessionUnused == poisoned => pc = "idle"

(***************************************************************************)
(* C10: while the tagger answers each request with five-field lines and a  *)
(* blank line, the k-th call writes one request line, the text without its *)
(* newlines and then a newline, starts reading at the first line of the    *)
(* k-th response, and returns one token per line of it, in order, having   *)
(* read its blank line and nothing after it.                               *)
(***************************************************************************)
OneRequestWritten ==
  InCall =>
    /\ written = proc_text \o <<NL>>
    /\ CountNL(written) = 1
    /\ Len(proc_text) + CountNL(text) = Len(text)

ReadsOwnResponse ==
  InCall =>
    IF got # <<>> /\ got[Len(got)] = <<NL>>
    THEN answered = ncalls /\ pending = 0 /\ resplen = 0
    ELSE answered = ncalls - 1 /\ pending = 1 /\ resplen = Len(got)

OneTokenPerLine ==
  AtReturn =>
    /\ Len(got) = Len(token_stream) + 1
    /\ got[Len(got)] = <<NL>>
    /\ \A i \in 1..Len(token_stream) :
          Tok(i)["word"] = Split(SubSeq(got[i], 1, Len(got[i]) - 1))[1]

EveryCallReturns ==
  (pc = "idle" /\ ncalls > 0) => outcome = "returned" /\ answered = ncalls /\ pending = 0

C10_Behaviour == OneRequestWritten /\ ReadsOwnResponse /\ OneTokenPerLine /\ EveryCallReturns

\* the tagger has answered every request so far with five-field lines, none
\* of them blank to rstrip, and a blank line
TaggerConforms == fivefield /\ nonblank /\ ~dead

====
